---- MODULE Spec2Model ----
(***************************************************************************)
(* Model of utils/system_utils.py: the cached screen-capture manager       *)
(* (ScreenCapture), the single-shot capture_window, and PerformanceMonitor.*)
(*                                                                         *)
(* Native handles are modelled by what the program can observe of them:    *)
(* each attribute of the manager is "none" (Python None), "live" (refers   *)
(* to a handle the OS still holds), "stale" (refers to a handle that was   *)
(* already released: _cleanup never resets an attribute to None) or, for   *)
(* the bitmap wrapper only, "empty" (CreateBitmap() made the wrapper but   *)
(* CreateCompatibleBitmap has not attached a native bitmap to it).         *)
(* outstanding[k] counts the native handles of kind k the OS still holds   *)
(* on behalf of the manager, referenced by an attribute or not.            *)
(***************************************************************************)
EXTENDS Integers, Sequences, FiniteSets, TLC

\* ------------------------------------------------------------------ bounds

\* the OS refuses a further handle of a kind once this many are outstanding
MaxOutstanding == 2
\* the number of _initialize_dc calls explored while every call so far was a
\* capture of one and the same accepted box
MaxRunInits == 3
\* the number of tick() calls explored
MaxTicks == 5
\* the largest window size a monitor is constructed with
MaxWindow == 3
\* the largest gap between two readings of the clock
MaxGap == 2

\* ------------------------------------------------------- ScreenCapture: data

None == <<>>

Kinds == {"hwindc", "srcdc", "memdc", "bmp"}

\* _cleanup written to release in the reverse of the order of acquisition
CleanupOrderReversed == <<"bmp", "memdc", "srcdc", "hwindc">>

\* the order of the four release statements of _cleanup
CleanupOrder == <<"srcdc", "memdc", "hwindc", "bmp">>

\* the native calls of _initialize_dc, in program order
InitSteps == <<"GetWindowDC", "CreateDCFromHandle", "CreateCompatibleDC",
               "CreateBitmap", "CreateCompatibleBitmap", "SelectObject">>

\* the calls of the try block of capture, in program order
BlitSteps == <<"BitBlt", "GetBitmapBits", "cvtColor">>

InitCalls == {InitSteps[i] : i \in DOMAIN InitSteps}
BlitCalls == {BlitSteps[i] : i \in DOMAIN BlitSteps}

\* which native call the backend makes fail in one operation ("none": no call)
FailPlans == {"none"} \cup InitCalls \cup BlitCalls

\* the boxes handed to capture: two boxes of equal size, one of another size,
\* a box of zero width, a box of negative height, and the absent box
Boxes == {<<0, 0, 2, 1>>, <<1, 0, 3, 1>>, <<0, 0, 1, 1>>,
          <<1, 0, 1, 1>>, <<0, 1, 1, 0>>, None}

\* the release call _cleanup makes for each attribute
ReleaseCall(k) ==
    CASE k \in {"srcdc", "memdc"} -> "DeleteDC"
      [] k = "hwindc" -> "ReleaseDC"
      [] k = "bmp" -> "DeleteObject"

ReleaseCalls == {ReleaseCall(k) : k \in Kinds}

\* history: no capture yet / calls that were not all captures of one box
Unset == <<-1>>
Mixed == <<-2>>

VARIABLES
    \* ScreenCapture attributes
    handles, initialized, last_bbox, last_width, last_height,
    \* the native side: handles of each kind still held
    outstanding,
    \* the release calls that raise when handed an already released handle
    \* (fixed by the library the program runs against)
    staleRaises,
    \* observation of the last ScreenCapture operation
    op, arg, result, failedCall, cleanups, acqCalls, peak, doubleRelease,
    \* history while every call so far was a capture of one accepted box:
    \* the box, the _initialize_dc calls, whether a native call failed
    runBox, runInits, runFailed

scVars == <<handles, initialized, last_bbox, last_width, last_height,
            outstanding, staleRaises, op, arg, result, failedCall, cleanups,
            acqCalls, peak, doubleRelease, runBox, runInits, runFailed>>

VARIABLES
    \* capture_window: the native side, and the last call observed
    cw_outstanding, cw_op, cw_result, cw_failed

cwVars == <<cw_outstanding, cw_op, cw_result, cw_failed>>

VARIABLES
    \* PerformanceMonitor attributes
    window_size, frame_times, last_time,
    \* the clock (time.perf_counter) and every reading tick() took of it
    clock, tickTimes

pmVars == <<window_size, frame_times, last_time, clock, tickTimes>>

vars == <<scVars, cwVars, pmVars>>

\* ScreenCapture.__init__
SCInit ==
    /\ handles = [k \in Kinds |-> "none"]
    /\ initialized = FALSE
    /\ last_bbox = None
    /\ last_width = 0
    /\ last_height = 0
    /\ outstanding = [k \in Kinds |-> 0]
    /\ staleRaises \in SUBSET ReleaseCalls
    /\ op = "new"
    /\ arg = None
    /\ result = None
    /\ failedCall = "none"
    /\ cleanups = <<>>
    /\ acqCalls = 0
    /\ peak = [k \in Kinds |-> 0]
    /\ doubleRelease = FALSE
    /\ runBox = Unset
    /\ runInits = 0
    /\ runFailed = FALSE

\* the manager and the native side as one value threaded through a handler
Self ==
    [handles |-> handles, initialized |-> initialized, last_bbox |-> last_bbox,
     last_width |-> last_width, last_height |-> last_height,
     outstanding |-> outstanding, cleanups |-> <<>>, dbl |-> FALSE,
     log |-> <<>>]

\* ---------------------------------------------------- ScreenCapture._cleanup

\* One release statement after another, from statement i on.  A release of
\* a live handle succeeds.  A release through a stale attribute is a second
\* release of the same handle: the library either reports it by raising,
\* which leaves the try block and skips the remaining statements, or
\* ignores it (raises: the release calls that raise).
RECURSIVE ReleaseFrom(_, _, _)
ReleaseFrom(i, s, raises) ==
    IF i > Len(CleanupOrder) THEN s
    ELSE LET k == CleanupOrder[i]
             h == s.handles[k]
         IN CASE h = "none" -> ReleaseFrom(i + 1, s, raises)
              [] h = "live" ->
                   ReleaseFrom(i + 1,
                       [s EXCEPT !.handles[k] = "stale",
                                 !.outstanding[k] = @ - 1,
                                 !.log = Append(@, k)], raises)
              [] h = "empty" ->
                   ReleaseFrom(i + 1, [s EXCEPT !.log = Append(@, k)], raises)
              [] h = "stale" ->
                   LET t == [s EXCEPT !.log = Append(@, k), !.dbl = TRUE]
                   IN IF ReleaseCall(k) \in raises THEN t
                      ELSE ReleaseFrom(i + 1, t, raises)

\* _cleanup without its last statement (self._initialized = False)
CleanupKeepsFlag(s, raises) ==
    LET t == ReleaseFrom(1, [s EXCEPT !.log = <<>>], raises)
    IN [t EXCEPT !.cleanups = Append(@, t.log)]

Cleanup(s, raises) ==
    LET t == ReleaseFrom(1, [s EXCEPT !.log = <<>>], raises)
    IN [t EXCEPT !.initialized = FALSE,
                 !.cleanups = Append(@, t.log)]

\* ----------------------------------------------- ScreenCapture._initialize_dc

\* the effect of one native call of _initialize_dc that succeeds; an
\* attribute that still referred to a live handle loses its only reference
\* to it, and the handle stays outstanding
Acquire(s, step) ==
    CASE step = "GetWindowDC" ->
           [s EXCEPT !.handles["hwindc"] = "live", !.outstanding["hwindc"] = @ + 1]
      [] step = "CreateDCFromHandle" ->
           [s EXCEPT !.handles["srcdc"] = "live", !.outstanding["srcdc"] = @ + 1]
      [] step = "CreateCompatibleDC" ->
           [s EXCEPT !.handles["memdc"] = "live", !.outstanding["memdc"] = @ + 1]
      [] step = "CreateBitmap" ->
           [s EXCEPT !.handles["bmp"] = "empty"]
      [] step = "CreateCompatibleBitmap" ->
           [s EXCEPT !.handles["bmp"] = "live", !.outstanding["bmp"] = @ + 1]
      [] step = "SelectObject" -> s

\* the native calls from step i on, up to the one that fails
RECURSIVE AcquireFrom(_, _, _)
AcquireFrom(i, s, fail) ==
    IF i > Len(InitSteps) \/ InitSteps[i] = fail THEN s
    ELSE AcquireFrom(i + 1, Acquire(s, InitSteps[i]), fail)

\* the manager after _initialize_dc, and what it returned
InitializeDc(s, width, height, fail, raises) ==
    LET t == AcquireFrom(1, s, fail)
    IN IF fail \in InitCalls
       THEN [self |-> Cleanup(t, raises), ok |-> FALSE, top |-> t.outstanding]
       ELSE [self |-> [t EXCEPT !.initialized = TRUE,
                                !.last_width = width,
                                !.last_height = height],
             ok |-> TRUE, top |-> t.outstanding]

\* ----------------------------------------------------- ScreenCapture.capture

Width(bbox) == bbox[3] - bbox[1]
Height(bbox) == bbox[4] - bbox[2]

\* the early returns written with < in place of <=
RejectedStrict(bbox) ==
    \/ bbox = None
    \/ Width(bbox) < 0
    \/ Height(bbox) < 0

\* the two early returns of capture
Rejected(bbox) ==
    \/ bbox = None
    \/ Width(bbox) <= 0
    \/ Height(bbox) <= 0

\* capture dropping the cached session on every call
NeedsRebuildAlways(s, bbox) == TRUE

\* the condition under which capture drops the cached session
NeedsRebuild(s, bbox) ==
    \/ s.last_bbox # bbox
    \/ ~s.initialized
    \/ Width(bbox) # s.last_width
    \/ Height(bbox) # s.last_height

\* the frame capture returns: its shape
Frame(bbox) == <<Height(bbox), Width(bbox), 3>>

\* the whole of capture(bbox) for an accepted box: the manager afterwards,
\* the value returned, the native call that failed and whether
\* _initialize_dc ran
CaptureBody(s, bbox, fail, raises) ==
    LET s1 == IF NeedsRebuild(s, bbox)
              THEN [Cleanup(s, raises) EXCEPT !.last_bbox = bbox]
              ELSE s
        ran == ~s1.initialized
        r == InitializeDc(s1, Width(bbox), Height(bbox), fail, raises)
        s2 == IF ran THEN r.self ELSE s1
        top == IF ran THEN r.top ELSE s1.outstanding
    IN IF ran /\ ~r.ok
       THEN [self |-> s2, ret |-> None, failed |-> fail, ran |-> ran, top |-> top]
       ELSE IF fail \in BlitCalls
            THEN [self |-> Cleanup(s2, raises), ret |-> None, failed |-> fail,
                  ran |-> ran, top |-> top]
            ELSE [self |-> s2, ret |-> Frame(bbox), failed |-> "none",
                  ran |-> ran, top |-> top]

\* the history after a capture of bbox
RunBoxAfter(bbox) ==
    IF runBox = Mixed \/ Rejected(bbox) THEN Mixed
    ELSE IF runBox = Unset \/ runBox = bbox THEN bbox
    ELSE Mixed

Capture(bbox, fail) ==
    IF Rejected(bbox)
    THEN /\ fail = "none"
         /\ op' = "capture"
         /\ arg' = bbox
         /\ result' = None
         /\ failedCall' = "none"
         /\ cleanups' = <<>>
         /\ acqCalls' = 0
         /\ peak' = outstanding
         /\ doubleRelease' = FALSE
         /\ runBox' = Mixed
         /\ runInits' = 0
         /\ runFailed' = FALSE
         /\ UNCHANGED <<handles, initialized, last_bbox, last_width,
                        last_height, outstanding, staleRaises>>
    ELSE \E c \in {CaptureBody(Self, bbox, fail, staleRaises)},
            inRun \in {RunBoxAfter(bbox) # Mixed} :
            /\ (inRun /\ c.ran) => runInits < MaxRunInits
            /\ \A k \in Kinds : c.top[k] <= MaxOutstanding
            \* a call that is not made cannot fail
            /\ fail \in InitCalls => c.ran
            /\ handles' = c.self.handles
            /\ initialized' = c.self.initialized
            /\ last_bbox' = c.self.last_bbox
            /\ last_width' = c.self.last_width
            /\ last_height' = c.self.last_height
            /\ outstanding' = c.self.outstanding
            /\ op' = "capture"
            /\ arg' = bbox
            /\ result' = c.ret
            /\ failedCall' = c.failed
            /\ cleanups' = c.self.cleanups
            /\ acqCalls' = IF c.ran THEN 1 ELSE 0
            /\ peak' = [k \in Kinds |-> IF c.top[k] >= outstanding[k]
                                        THEN c.top[k] ELSE outstanding[k]]
            /\ doubleRelease' = c.self.dbl
            /\ runBox' = RunBoxAfter(bbox)
            /\ runInits' = IF inRun THEN runInits + (IF c.ran THEN 1 ELSE 0)
                           ELSE 0
            /\ runFailed' = (inRun /\ (runFailed \/ c.failed # "none"))
            /\ UNCHANGED staleRaises

\* ------------------------------------------------------- ScreenCapture.close

Close ==
    \E s \in {Cleanup(Self, staleRaises)} :
       /\ handles' = s.handles
       /\ initialized' = s.initialized
       /\ outstanding' = s.outstanding
       /\ op' = "close"
       /\ arg' = None
       /\ result' = None
       /\ failedCall' = "none"
       /\ cleanups' = s.cleanups
       /\ acqCalls' = 0
       /\ peak' = outstanding
       /\ doubleRelease' = s.dbl
       /\ runBox' = Mixed
       /\ runInits' = 0
       /\ runFailed' = FALSE
       /\ UNCHANGED <<last_bbox, last_width, last_height, staleRaises>>

SCNext ==
    \/ \E bbox \in Boxes, fail \in FailPlans :
          Capture(bbox, fail) /\ UNCHANGED <<cwVars, pmVars>>
    \/ Close /\ UNCHANGED <<cwVars, pmVars>>

\* ------------------------------------------------------------ capture_window

\* the window rectangles GetWindowRect reports
WindowRects == {<<0, 0, 2, 1>>, <<5, 5, 6, 6>>}

\* the attributes of the manager that are wrapper objects with a finalizer;
\* hwindc is a plain integer
Wrappers == {"srcdc", "memdc", "bmp"}

CWFailPlans == {"GetWindowRect"} \cup FailPlans

CWInit ==
    /\ cw_outstanding = [k \in Kinds |-> 0]
    /\ cw_op = "new"
    /\ cw_result = None
    /\ cw_failed = "none"

\* the locals of one call before the first native call
Locals ==
    [handles |-> [k \in Kinds |-> "none"], outstanding |-> cw_outstanding]

\* capture_window(hwnd): rect is what GetWindowRect reports, fail the native
\* call that raises.  The four release statements are reached only when no
\* call raised; the except clause releases nothing.  When the call returns,
\* its locals are dropped: the finalizer of a wrapper may or may not give
\* its handle back (reclaimed), the integer hwindc has none.
CaptureWindow(rect, fail, reclaimed) ==
    \E t \in {IF fail = "GetWindowRect" THEN Locals
               ELSE AcquireFrom(1, Locals, fail)} :
       /\ \A k \in Kinds : t.outstanding[k] <= MaxOutstanding
       /\ IF fail = "none"
          THEN /\ reclaimed = {}
               /\ cw_outstanding' =
                     ReleaseFrom(1, [t EXCEPT !.log = <<>>, !.dbl = FALSE], {}).outstanding
               /\ cw_result' = Frame(rect)
          ELSE /\ reclaimed \subseteq {k \in Wrappers : t.handles[k] = "live"}
               /\ cw_outstanding' =
                     [k \in Kinds |->
                        IF k \in reclaimed THEN t.outstanding[k] - 1
                        ELSE t.outstanding[k]]
               /\ cw_result' = None
       /\ cw_op' = "capture_window"
       /\ cw_failed' = fail

CWNext ==
    \E rect \in WindowRects, fail \in CWFailPlans, reclaimed \in SUBSET Wrappers :
       CaptureWindow(rect, fail, reclaimed) /\ UNCHANGED <<scVars, pmVars>>

\* -------------------------------------------------------- PerformanceMonitor

\* last_time = None
NoTime == -1

\* the default window_size of __init__
DefaultWindow == 100

PMInit ==
    /\ frame_times = <<>>
    /\ last_time = NoTime
    /\ clock = 0
    /\ tickTimes = <<>>

\* tick dropping the newest sample on overflow (pop() in place of pop(0))
AppendedDropsNewest(times, size, frame_time) ==
    LET a == Append(times, frame_time)
    IN IF Len(a) > size THEN SubSeq(a, 1, Len(a) - 1) ELSE a

\* frame_times after tick appended frame_time
Appended(times, size, frame_time) ==
    LET a == Append(times, frame_time)
    IN IF Len(a) > size THEN Tail(a) ELSE a

\* tick(), called dt after the previous reading of the clock
Tick(dt) ==
    LET current_time == clock + dt
    IN /\ Len(tickTimes) < MaxTicks
       /\ clock' = current_time
       /\ frame_times' =
             IF last_time # NoTime
             THEN Appended(frame_times, window_size, current_time - last_time)
             ELSE frame_times
       /\ last_time' = current_time
       /\ tickTimes' = Append(tickTimes, current_time)
       /\ UNCHANGED window_size

PMNext ==
    \E dt \in 1..MaxGap : Tick(dt) /\ UNCHANGED <<scVars, cwVars>>

\* ------------------------------------------------------------ specifications

\* a ScreenCapture instance driven by capture and close
Init ==
    /\ SCInit
    /\ CWInit
    /\ PMInit /\ window_size = DefaultWindow

Next == SCNext

Spec == Init /\ [][Next]_vars

\* repeated calls of capture_window
InitCW ==
    /\ SCInit /\ staleRaises = {}
    /\ CWInit
    /\ PMInit /\ window_size = DefaultWindow

SpecCW == InitCW /\ [][CWNext]_vars

\* a fresh PerformanceMonitor(window_size) driven by tick
InitPM ==
    /\ SCInit /\ staleRaises = {}
    /\ CWInit
    /\ PMInit /\ window_size \in 1..MaxWindow

SpecPM == InitPM /\ [][PMNext]_vars

\* ------------------------------------------------------------------- claims

\* a box as the specification describes it: absent, or right <= left, or
\* bottom <= top
Degenerate(bbox) == bbox = None \/ bbox[3] <= bbox[1] \/ bbox[4] <= bbox[2]

NoneOutstanding(out) == \A k \in Kinds : out[k] = 0

\* position of k in order, and: log calls the kinds in the order of order
Pos(k, order) == CHOOSE n \in DOMAIN order : order[n] = k
InOrder(log, order) ==
    \A i, j \in DOMAIN log : i < j => Pos(log[i], order) < Pos(log[j], order)

\* every call so far was a capture of one and the same non-degenerate box
OneBoxRun == runBox # Unset /\ runBox # Mixed

\* C1 as stated: across capture calls that all pass the same non-degenerate
\* box, _initialize_dc runs at most once.
C1_AtMostOneAcquisition == OneBoxRun => runInits <= 1

\* C1 amended: across capture calls that all pass the same non-degenerate
\* box and in which no native call fails, _initialize_dc runs at most once.
C1_AtMostOneAcquisitionNoFailure ==
    (OneBoxRun /\ ~runFailed) => runInits <= 1

\* C1 witness: a second capture of the same box returned a frame from the
\* session the first one built
C1_Reused ==
    /\ OneBoxRun /\ ~runFailed
    /\ runInits = 1
    /\ op = "capture" /\ acqCalls = 0 /\ result = Frame(runBox)

\* C2: after close(), from every reachable state of the manager, no native
\* resource is outstanding (close never raises: _cleanup swallows every
\* exception).
C2_CloseLeavesNothing == op = "close" => NoneOutstanding(outstanding)

\* C3: when capture returns none because a native call failed, every handle
\* the manager acquired has been released.
C3_NoLeakOnFailure ==
    (op = "capture" /\ failedCall # "none") => NoneOutstanding(outstanding)

\* C4: never more than one handle of each kind is outstanding, neither
\* between operations nor during one.
C4_AtMostOneSession ==
    \A k \in Kinds : outstanding[k] <= 1 /\ peak[k] <= 1

\* C5: a capture of an absent or degenerate box returns none, makes no
\* native acquisition and no release call, and leaves the cached box, the
\* cached dimensions, the initialized flag and the handles unchanged.
C5_DegenerateNoEffect ==
    [][(op' = "capture" /\ Degenerate(arg')) =>
          /\ result' = None
          /\ acqCalls' = 0
          /\ cleanups' = <<>>
          /\ UNCHANGED <<handles, initialized, last_bbox, last_width,
                         last_height, outstanding>>]_vars

\* C5 witness: a degenerate box was rejected while a session was live
C5_RejectedWhileLive ==
    /\ op = "capture" /\ Degenerate(arg) /\ result = None
    /\ initialized /\ \A k \in Kinds : handles[k] = "live"

\* C6 as stated: after a capture that failed during blit or readback the
\* session is released and marked uninitialized, and the next capture call
\* makes a fresh acquisition and returns a frame if its native calls succeed.
C6_NextCaptureRebuilds ==
    [][(op = "capture" /\ failedCall \in BlitCalls) =>
          /\ ~initialized
          /\ \A k \in Kinds : handles[k] # "live"
          /\ op' = "capture" =>
                /\ acqCalls' = 1
                /\ failedCall' = "none" => result' = Frame(arg')]_vars

\* C6 amended: ... and the next capture call that passes a non-degenerate
\* box makes a fresh acquisition and returns a frame if its native calls
\* succeed.
C6_NextAcceptedCaptureRebuilds ==
    [][(op = "capture" /\ failedCall \in BlitCalls) =>
          /\ ~initialized
          /\ \A k \in Kinds : handles[k] # "live"
          /\ (op' = "capture" /\ ~Degenerate(arg')) =>
                /\ acqCalls' = 1
                /\ failedCall' = "none" => result' = Frame(arg')]_vars

\* C6 witness: a capture failed in its blit stage with the session it had
\* itself just built or reused
C6_BlitFailed ==
    /\ op = "capture" /\ failedCall \in BlitCalls
    /\ result = None
    /\ cleanups # <<>> /\ cleanups[Len(cleanups)] = CleanupOrder

\* C7: when capture_window returns, with an image or with none, no handle
\* it acquired is outstanding.
C7_WindowCaptureLeavesNothing ==
    cw_op = "capture_window" => NoneOutstanding(cw_outstanding)

\* C8: after k calls of tick() on a fresh monitor of window size N >= 1 the
\* samples are the last min(max(k-1, 0), N) gaps between consecutive ticks,
\* oldest first.
C8_RollingWindow ==
    LET k == Len(tickTimes)
        n == Len(frame_times)
        gaps == IF k = 0 THEN 0 ELSE k - 1
    IN /\ n = (IF gaps <= window_size THEN gaps ELSE window_size)
       /\ n <= window_size
       /\ \A i \in 1..n :
             frame_times[i] = tickTimes[k - n + i] - tickTimes[k - n + i - 1]

\* C8 witness: the window overflowed and holds gaps of different lengths
C8_Overflowed ==
    /\ Len(tickTimes) >= window_size + 2
    /\ Len(frame_times) = window_size
    /\ frame_times[1] # frame_times[Len(frame_times)]

\* C9 as stated: every _cleanup releases in the reverse of the order of
\* acquisition (bitmap, memory DC, source DC, window DC).
C9_ReverseOrder ==
    \A i \in DOMAIN cleanups :
        InOrder(cleanups[i], <<"bmp", "memdc", "srcdc", "hwindc">>)

\* C9 amended: every _cleanup makes its release calls in the fixed order
\* source DC, memory DC, window DC, bitmap, whichever step failed.
C9_FixedOrder ==
    \A i \in DOMAIN cleanups :
        InOrder(cleanups[i], <<"srcdc", "memdc", "hwindc", "bmp">>)

\* C9 witness: a _cleanup released all four handles of a live session
C9_FullRelease ==
    /\ \E i \in DOMAIN cleanups : Len(cleanups[i]) = 4
    /\ NoneOutstanding(outstanding)
    /\ ~doubleRelease

\* C10: no release call is made on a handle that an earlier _cleanup
\* already released.
C10_NoDoubleRelease == ~doubleRelease

====
